---- MODULE Spec2Model ----
(***************************************************************************)
(* Wallet-challenge authentication core of the DocuChain backend, the      *)
(* session tokens it returns with the requests that present them, and the  *)
(* in-memory OTP store.                                                    *)
(*                                                                         *)
(* The identity store (the userModel collection) is a map from the         *)
(* lowercase wallet address to the stored record.  Every request is a      *)
(* process; a process takes one step per awaited identity-store call, the  *)
(* step being the store operation together with the synchronous code that  *)
(* runs when the await resumes.  Time is counted in minutes (every         *)
(* duration of the code is a whole number of minutes).                     *)
(***************************************************************************)
EXTENDS Integers, Sequences, FiniteSets, TLC

VARIABLES
    users,      \* identity store: lowercase walletAddress -> record
    now,        \* Date.now(), in minutes
    ticks,      \* number of clock advances so far
    nonceCtr,   \* number of nonces generated (stands for crypto.randomBytes)
    issued,     \* nonces returned to callers by generateNonce
    fails,      \* per identity: failed attempts recorded since the last reset, time of the last
    accepted,   \* signatures a successful verifySignature has accepted
    consumed,   \* stored nonces a successful verifySignature has validated
    proc,       \* per request process: position, arguments, locals, result
    web,        \* per client: the last token-bearing request and its response
    otpStore,   \* the OTP Map: userId -> stored entry
    otpRes,     \* per caller: the last OTP store call and what it returned
    otpLog,     \* per userId, since the last generateOTPForUser: the code it
                \* returned, the verifyOTP calls that returned true, and the
                \* calls that compared and returned false
    nv,         \* the last NonceService.validateNonce call on a nonce string
    documents,  \* the contract's mapping: docId -> Document
    emitted,    \* the last event the contract emitted
    docReq,     \* per client: the last request through verifyDocumentAccess
    flow,       \* per client: the last request through an OTP-gated flow
    profiles    \* profile.email of the identities that signup saved

vars == <<users, now, ticks, nonceCtr, issued, fails, accepted, consumed, proc,
          web, otpStore, otpRes, otpLog, nv, documents, emitted, docReq,
          flow, profiles>>

\* the requests that an OTP gates, and what signup stored
gated == <<flow, profiles>>

\* the ledger and the requests that consult it
ledger == <<documents, emitted, docReq>>

\* state of the calls made outside the request handlers
extra == <<nv, ledger, gated>>

\* state outside the wallet-challenge core
outside == <<web, otpStore, otpRes, otpLog, extra>>

\* the OTP store
otp == <<otpStore, otpRes, otpLog>>

\* state outside the OTP store
core == <<users, nonceCtr, issued, fails, accepted, consumed, proc>>

---------------------------------------------------------------------------
(* Bounds of the model *)

\* overlapping requests (Spec)
MaxTicks == 1
MaxNonces == 1
MaxAttempts == 2
\* requests one at a time, one challenge (SpecSeq)
SeqTicks == 1
SeqNonces == 1
SeqAttempts == 6
\* requests one at a time, a second challenge (SpecCycle)
CycleNonces == 2
\* the challenge and the token-bearing requests (SpecSession)
SessionTicks == 2
SessionNonces == 1
\* the OTP store (SpecOtp)
OtpTicks == 2
\* the OTP store under the periodic cleanup (SpecSweep)
SweepTicks == 7
\* validateNonce on nonce strings (SpecNonce)
MaxLen == 5
NonceTicks == 2
\* the ledger (SpecLedger)
LedgerTicks == 1

GateTicks == 1

LockoutAttempts == 11

ProvenanceTicks == 1
ProvenanceNonces == 1
ProvenanceAttempts == 1

HistoryTicks == 2
HistoryNonces == 16

(* Program constants (minutes) *)

MAX_ATTEMPTS == 5
LOCK_DURATION_MINUTES == 15
maxAgeMinutes == 1500
HistorySlice == 15
AuthAttemptsMax == 10
AccessTtl == 60
RefreshTtl == 43200
validityPeriod == 5
OtpMaxAttempts == 3
CleanupInterval == 1

---------------------------------------------------------------------------
(* Values *)

Procs == {"p1", "p2"}
SeqProcs == {"p1"}

\* "0xaa" is a registered wallet, "0xAA" its checksummed spelling, "0xbb" a
\* well-formed address with no record, "bad" a malformed address.
Addresses == {"0xaa", "0xbb", "bad"}
VerifyAddresses == {"0xaa", "0xAA", "0xbb"}
Wallets == {"0xaa", "0xbb"}
Registered == {"0xaa"}
IpAddresses == {"10.0.0.1"}
TickSteps == {1, LOCK_DURATION_MINUTES + 1, maxAgeMinutes, maxAgeMinutes + 1}
SessionSteps == {AccessTtl - 1, AccessTtl, RefreshTtl}
OtpSteps == {CleanupInterval, validityPeriod}
NonceSteps == {1, 10}
MaxAges == {1, 10}

Null == -1
NoNonce == <<>>
OtherMessage == <<"hello">>
Malformed == [signer |-> "none", msg |-> <<>>]

toLowerCase(a) == IF a = "0xAA" THEN "0xaa" ELSE IF a = "0xBB" THEN "0xbb" ELSE a
getAddress(a) == IF a = "0xaa" THEN "0xAA" ELSE IF a = "0xbb" THEN "0xBB" ELSE a
isAddress(a) == a \in {"0xaa", "0xAA", "0xbb", "0xBB"}

\* signMessage by the key of wallet w over message m
Signature(w, m) == [signer |-> w, msg |-> m]

\* ethers.verifyMessage: the checksummed address of the key that signed
\* `message`; for a signature made over another message the recovery yields
\* an address nobody holds.
verifyMessage(message, signature) ==
    IF signature.msg = message THEN getAddress(signature.signer) ELSE "0xCC"

NewUser(a) ==
    [walletAddress |-> toLowerCase(a),
     currentNonce |-> NoNonce,
     lastNonceGeneratedAt |-> Null,
     authAttempts |-> 0,
     lockedUntil |-> Null,
     lastLogin |-> Null,
     loginHistory |-> <<>>]

NoUser == NewUser("none")

findOne(a) == IF toLowerCase(a) \in DOMAIN users THEN users[toLowerCase(a)] ELSE NoUser
Found(a) == toLowerCase(a) \in DOMAIN users

isLocked(u, t) == u.lockedUntil # Null /\ u.lockedUntil > t

---------------------------------------------------------------------------
(* Nonce service *)

generateNonce(walletAddress, timestamp, randomBytes) ==
    <<walletAddress, timestamp, randomBytes>>

validateNonceAnyAge(nonce, t) == Len(nonce) = 3

validateNonce(nonce, t) ==
    IF Len(nonce) # 3 THEN FALSE
    ELSE t - nonce[2] <= maxAgeMinutes

\* A nonce as the string validateNonce receives: a sequence of characters.
Chars == {"1", "2", "x", ":"}
Digits == {"1", "2"}
Texts == UNION {[1..n -> Chars] : n \in 0..MaxLen}
\* a value that is not a string (null, undefined): nonce.split raises
NotAString == <<"null">>
NaN == [nan |-> TRUE, value |-> 0]
Number(n) == [nan |-> FALSE, value |-> n]

DigitValue(ch) == IF ch = "1" THEN 1 ELSE 2

RECURSIVE split(_)
\* String.prototype.split(':')
split(text) ==
    IF \A i \in 1..Len(text) : text[i] # ":" THEN <<text>>
    ELSE LET i == CHOOSE j \in 1..Len(text) :
                      text[j] = ":" /\ \A h \in 1..(j - 1) : text[h] # ":"
         IN <<SubSeq(text, 1, i - 1)>> \o split(SubSeq(text, i + 1, Len(text)))

RECURSIVE DigitsValue(_)
DigitsValue(digits) ==
    IF digits = <<>> THEN 0
    ELSE 10 * DigitsValue(SubSeq(digits, 1, Len(digits) - 1))
            + DigitValue(digits[Len(digits)])

\* the longest prefix of digits
DigitPrefix(field) ==
    LET n == CHOOSE m \in 0..Len(field) :
                 /\ \A i \in 1..m : field[i] \in Digits
                 /\ (m < Len(field) => field[m + 1] \notin Digits)
    IN SubSeq(field, 1, n)

\* parseInt: the number written by the leading digits, NaN when there are none
parseInt(field) ==
    IF DigitPrefix(field) = <<>> THEN NaN ELSE Number(DigitsValue(DigitPrefix(field)))

\* nonceAge <= maxAge, false when the age is NaN
AgeWithin(timestamp, maxAge, t) ==
    IF timestamp.nan THEN FALSE ELSE t - timestamp.value <= maxAge

\* NonceService.validateNonce on the string: what it returns, and whether
\* it raised
validateNonceText(nonce, maxAge, t) ==
    IF nonce = NotAString THEN [result |-> FALSE, raised |-> FALSE]
    ELSE LET parts == split(nonce)
         IN IF Len(parts) # 3 THEN [result |-> FALSE, raised |-> FALSE]
            ELSE [result |-> AgeWithin(parseInt(parts[2]), maxAge, t),
                  raised |-> FALSE]

NoValidation == [nonce |-> <<>>, maxAge |-> 0, received |-> FALSE, called |-> FALSE,
                 at |-> Null, result |-> FALSE, raised |-> FALSE]

---------------------------------------------------------------------------
(* Session tokens *)

Token(walletAddress, type, secret, ttl, t) ==
    [walletAddress |-> walletAddress, type |-> type, secret |-> secret, exp |-> t + ttl]

NoToken == [walletAddress |-> "none", type |-> "none", secret |-> "none", exp |-> Null]

generateTokens(walletAddress, t) ==
    [accessToken |-> Token(walletAddress, "access", "ACCESS_TOKEN_SECRET", AccessTtl, t),
     refreshToken |-> Token(walletAddress, "refresh", "REFRESH_TOKEN_SECRET", RefreshTtl, t)]

---------------------------------------------------------------------------
(* Results of a request *)

InvalidAddress == "Invalid Ethereum address"
NoAccount == "Please create an account first"
NoValidNonce == "No valid nonce found"
NonceExpired == "Nonce has expired"
SignatureRecoveryError == "invalid signature"
SignatureMismatch == "Signature verification failed"

NoResult == [kind |-> "none", error |-> "", nonce |-> NoNonce,
             accessToken |-> NoToken, refreshToken |-> NoToken]
Throw(msg) == [NoResult EXCEPT !.kind = "error", !.error = msg]
ReturnNonce(n) == [NoResult EXCEPT !.kind = "nonce", !.nonce = n]
ReturnTokens(tk) == [NoResult EXCEPT !.kind = "tokens",
                                     !.accessToken = tk.accessToken,
                                     !.refreshToken = tk.refreshToken]

Idle == [pc |-> "idle", op |-> "none", walletAddress |-> "none",
         signature |-> Malformed, message |-> NoNonce, ipAddress |-> "none",
         user |-> NoUser, found |-> FALSE, at |-> Null, nonce |-> NoNonce,
         updatedAttempts |-> 0, lockUntil |-> Null, incAt |-> Null, storeOps |-> 0,
         result |-> NoResult]

Ready(p) == proc[p].pc \in {"idle", "done"}

\* What a caller can present: a wallet's signature over the message sent
\* along, a malformed signature, or the owner's signature over another text.
Messages == issued \cup {OtherMessage}
Presented ==
    {<<Signature(w, m), m>> : w \in Wallets, m \in Messages}
        \cup {<<Malformed, m>> : m \in Messages}
        \cup {<<Signature(w, OtherMessage), m>> : w \in Registered, m \in issued}

Signatures == {sm[1] : sm \in Presented}

NoFails == [n |-> 0, at |-> Null]

\* The request has returned: its locals are gone, the response stays.
Return(call, result) ==
    [Idle EXCEPT !.pc = "done", !.op = call.op, !.walletAddress = call.walletAddress,
                 !.storeOps = call.storeOps, !.result = result]

---------------------------------------------------------------------------
(* Token-bearing requests *)

Clients == {"c1"}

\* the Authorization header: absent, or "Bearer <token>"; Bearer(NoToken)
\* is a header whose second word is missing or is not a JWT
NoHeader == [present |-> FALSE, token |-> NoToken]
Bearer(token) == [present |-> TRUE, token |-> token]

\* jwt.verify: the signature first, then the expiry claim
jwtVerifyNoExpiry(token, secret, t) ==
    IF token = NoToken THEN "JsonWebTokenError"
    ELSE IF token.secret # secret THEN "JsonWebTokenError"
    ELSE "ok"

jwtVerify(token, secret, t) ==
    IF token = NoToken THEN "JsonWebTokenError"
    ELSE IF token.secret # secret THEN "JsonWebTokenError"
    ELSE IF t >= token.exp THEN "TokenExpiredError"
    ELSE "ok"

NoTokenProvided == "No token provided"
InvalidTokenType == "Invalid token type"
UserNotFound == "User not found"
TokenExpired == "Token expired"
AuthenticationFailed == "Authentication failed"
InvalidRefreshToken == "Invalid refresh token"
JwtExpired == "jwt expired"
JwtInvalid == "invalid signature"

NoRequest == [op |-> "none", header |-> NoHeader, refreshToken |-> NoToken,
              status |-> 0, error |-> "", next |-> FALSE, user |-> "none",
              accessToken |-> NoToken]

\* res.status(401).json({error})
Respond401(request, error) == [request EXCEPT !.status = 401, !.error = error]

\* a token signed with a key that is not the server's
Forged(walletAddress, type, t) == Token(walletAddress, type, "attacker", AccessTtl, t)

\* an access token of a wallet whose record the store does not hold
Orphan(t) == Token("0xbb", "access", "ACCESS_TOKEN_SECRET", AccessTtl, t)

\* the tokens the server has returned and a client still holds
Held ==
    {proc[p].result.accessToken : p \in {q \in DOMAIN proc : proc[q].result.kind = "tokens"}}
      \cup {proc[p].result.refreshToken :
                p \in {q \in DOMAIN proc : proc[q].result.kind = "tokens"}}
      \cup {web[c].accessToken : c \in {d \in DOMAIN web : web[d].accessToken # NoToken}}

PresentedTokens == Held \cup {NoToken, Forged("0xaa", "access", now), Orphan(now)}

Headers == {NoHeader} \cup {Bearer(token) : token \in PresentedTokens}

---------------------------------------------------------------------------
(* OTP store *)

OtpCallers == {"c1", "c2"}
UserIds == {"a@b.com", "c@d.com"}
OneUserId == {"a@b.com"}
OneCaller == {"c1"}
\* what generateOTP can return, and what a caller can present
Otps == {"111111", "222222"}

NoEntry == [otp |-> "none", timestamp |-> Null, attempts |-> 0]
NoOtpCall == [op |-> "none", userId |-> "none", otp |-> "none", result |-> FALSE,
              path |-> "none", storedData |-> NoEntry]
NoLog == [code |-> "none", wins |-> 0, wrong |-> 0]

\* Map.prototype.set, Map.prototype.delete
MapSet(store, userId, entry) ==
    [k \in DOMAIN store \cup {userId} |-> IF k = userId THEN entry ELSE store[k]]

\* Map.clear in place of Map.delete
MapClear(store, userId) == [k \in {} |-> NoEntry]

MapDelete(store, userId) ==
    [k \in DOMAIN store \ {userId} |-> store[k]]

ExpiredAtLimit(entry, t) == t - entry.timestamp >= validityPeriod

Expired(entry, t) == t - entry.timestamp > validityPeriod

Exhausted(entry) == entry.attempts >= OtpMaxAttempts

NotCounted(entry) == entry

Counted(entry) == [entry EXCEPT !.attempts = @ + 1]

\* the branch verifyOTP takes
verifyPath(store, userId, candidate, t) ==
    IF userId \notin DOMAIN store THEN "absent"
    ELSE IF Expired(store[userId], t) THEN "expired"
    ELSE IF Exhausted(store[userId]) THEN "exhausted"
    ELSE IF store[userId].otp = candidate THEN "match"
    ELSE "mismatch"

KeptAfterMatch(store, userId) == store

ClearedAfterMatch(store, userId) == MapDelete(store, userId)

\* the store verifyOTP leaves
verifyStore(store, userId, candidate, t) ==
    LET path == verifyPath(store, userId, candidate, t)
    IN IF path = "absent" THEN store
       ELSE IF path \in {"expired", "exhausted"} THEN MapDelete(store, userId)
       ELSE IF path = "match"
            THEN ClearedAfterMatch(MapSet(store, userId, Counted(store[userId])), userId)
       ELSE MapSet(store, userId, Counted(store[userId]))

verifyOTP(store, userId, candidate, t) == verifyPath(store, userId, candidate, t) = "match"

FreshEntryKeepingAttempts(store, userId, code, t) ==
    [otp |-> code, timestamp |-> t,
     attempts |-> IF userId \in DOMAIN store THEN store[userId].attempts ELSE 0]

FreshEntry(store, userId, code, t) == [otp |-> code, timestamp |-> t, attempts |-> 0]

cleanupAtLimit(store, t) ==
    [k \in {j \in DOMAIN store : ~ExpiredAtLimit(store[j], t)} |-> store[k]]

cleanupExpiredOTPs(store, t) ==
    [k \in {j \in DOMAIN store : ~(t - store[j].timestamp > validityPeriod)} |-> store[k]]

---------------------------------------------------------------------------
(* DocumentManagement contract and the document-access middleware *)

Accounts == {"0xaa", "0xbb"}
ZeroAddress == "0x00"
IpfsHashes == {"Qm1"}
DocCodes == {"DEG"}

\* the value of documents[docId] for a docId never written
NoDocument == [issuer |-> ZeroAddress, recipient |-> ZeroAddress, ipfsHash |-> "",
               docCode |-> "", timestamp |-> 0, isVerified |-> FALSE]

\* keccak256(abi.encodePacked(_ipfsHash, _docCode, block.timestamp))
keccak256(ipfsHash, docCode, timestamp) == <<ipfsHash, docCode, timestamp>>

\* req.body.docId absent
NoDocId == <<>>
\* a docId no issueDocument has returned
UnknownDocId == keccak256("Qm0", "DEG", 0)

NoEvent == [name |-> "none", docId |-> NoDocId, from |-> ZeroAddress, to |-> ZeroAddress]

Document(docId) == IF docId \in DOMAIN documents THEN documents[docId] ELSE NoDocument

canAccessIssuerOnly(docId, user) == Document(docId).issuer = user

canAccessDocument(docId, user) ==
    Document(docId).issuer = user \/ Document(docId).recipient = user

NoDocRequest == [op |-> "none", docId |-> NoDocId, user |-> "none", ledgerUp |-> TRUE,
                 status |-> 0, error |-> "", next |-> FALSE]

DocumentIdRequired == "Document ID is required"
AccessDenied == "Access denied"
AccessVerificationFailed == "Access verification failed"

(* OTP-gated flows: signup (keyed by email) and document verification     *)
(* (keyed by docId)                                                        *)
DocKeys == {"0xd1"}
Emails == {"a@b.com"}
SignupAddresses == {"0xbb", "bad"}
GateSteps == {validityPeriod + 1}
NoOwner == "none"
NoDbDocument == "none"

InvalidOrExpiredOTP == "Invalid or expired OTP"

NoFlow == [op |-> "none", pc |-> "idle", walletAddress |-> "none", key |-> "none",
           otp |-> "none", isOTPValid |-> FALSE, status |-> 0, error |-> "",
           isVerified |-> FALSE, owner |-> NoOwner]

\* if (!isOTPValid) return / throw
OtpGateOpen(isOTPValid) == TRUE

OtpGate(isOTPValid) == isOTPValid

Init ==
    /\ users = [a \in Registered |-> NewUser(a)]
    /\ now = 0
    /\ ticks = 0
    /\ nonceCtr = 0
    /\ issued = {}
    /\ fails = [a \in Registered |-> NoFails]
    /\ accepted = {}
    /\ consumed = {}
    /\ proc = [p \in Procs |-> Idle]
    /\ web = [c \in Clients |-> NoRequest]
    /\ otpStore = [k \in {} |-> NoEntry]
    /\ otpRes = [c \in OtpCallers |-> NoOtpCall]
    /\ otpLog = [k \in UserIds \cup DocKeys |-> NoLog]
    /\ nv = NoValidation
    /\ documents = [d \in {} |-> NoDocument]
    /\ emitted = NoEvent
    /\ docReq = [c \in Clients |-> NoDocRequest]
    /\ flow = [c \in Clients |-> NoFlow]
    /\ profiles = [a \in {} |-> "none"]

\* Time passes between any two steps.
TickBy(maxTicks, steps) ==
    /\ ticks < maxTicks
    /\ \E d \in steps : now' = now + d
    /\ ticks' = ticks + 1
    /\ UNCHANGED <<users, nonceCtr, issued, fails, accepted, consumed, proc, outside>>

Tick(maxTicks) == TickBy(maxTicks, TickSteps)

---------------------------------------------------------------------------
(* Identity-store updates *)

\* findOneAndUpdate / updateOne without upsert: no record, no effect.
UpdateUser(a, updated) ==
    IF Found(a) THEN [users EXCEPT ![toLowerCase(a)] = updated] ELSE users

\* $push with $each and $slice: -HistorySlice
PushSlice(history, entry) ==
    LET h == Append(history, entry)
    IN IF Len(h) > HistorySlice
       THEN SubSeq(h, Len(h) - HistorySlice + 1, Len(h))
       ELSE h

Call(p, op, a) ==
    [Idle EXCEPT !.op = op, !.walletAddress = a]

---------------------------------------------------------------------------
(* AuthMiddleware.generateNonce *)

AccountMissingIgnored(a) == FALSE

AccountMissing(a) == ~Found(a)

\* From the call to the first write: address check, findOne, nonce built.
GenerateNonceCall(p, a, maxNonces) ==
    /\ Ready(p)
    /\ IF ~isAddress(a)
       THEN /\ proc' = [proc EXCEPT ![p] =
                   Return(Call(p, "generateNonce", a), Throw(InvalidAddress))]
            /\ UNCHANGED nonceCtr
       ELSE IF AccountMissing(a)
       THEN /\ proc' = [proc EXCEPT ![p] =
                   Return([Call(p, "generateNonce", a) EXCEPT !.storeOps = 1],
                          Throw(NoAccount))]
            /\ UNCHANGED nonceCtr
       ELSE /\ nonceCtr < maxNonces
            /\ nonceCtr' = nonceCtr + 1
            /\ proc' = [proc EXCEPT ![p] =
                   [Call(p, "generateNonce", a) EXCEPT
                       !.pc = "gn_update", !.storeOps = 1, !.at = now,
                       !.user = findOne(a), !.found = Found(a),
                       !.nonce = generateNonce(a, now, nonceCtr + 1)]]
    /\ UNCHANGED <<users, now, ticks, issued, fails, accepted, consumed, outside>>

SetNonce(u, nonce, t) ==
    [u EXCEPT !.currentNonce = nonce, !.lastNonceGeneratedAt = t]

\* findOneAndUpdate resolves; the nonce is returned to the caller.
GenerateNonceUpdate(p) ==
    /\ proc[p].pc = "gn_update"
    /\ LET a == proc[p].walletAddress
       IN users' = UpdateUser(a, SetNonce(findOne(a), proc[p].nonce, proc[p].at))
    /\ issued' = issued \cup {proc[p].nonce}
    /\ proc' = [proc EXCEPT ![p] =
           Return([@ EXCEPT !.storeOps = @ + 1], ReturnNonce(proc[p].nonce))]
    /\ UNCHANGED <<now, ticks, nonceCtr, fails, accepted, consumed, outside>>

---------------------------------------------------------------------------
(* AuthMiddleware.verifySignature *)

Recoverable(signature) == signature # Malformed

SignerMatches(a, message, signature) ==
    toLowerCase(verifyMessage(message, signature)) = toLowerCase(a)

\* The outcome of the synchronous code between findOne and the next await
VerifyOutcome(a, signature, message, t) ==
    IF ~Found(a) \/ findOne(a).currentNonce = NoNonce THEN NoValidNonce
    ELSE IF ~validateNonce(findOne(a).currentNonce, t) THEN NonceExpired
    ELSE IF ~Recoverable(signature) THEN SignatureRecoveryError
    ELSE IF ~SignerMatches(a, message, signature) THEN SignatureMismatch
    ELSE "ok"

\* From the call to the second await: findOne, nonce checks, recovery, comparison.
VerifySignatureCall(p, a, signature, message, ipAddress, maxAttempts) ==
    /\ Ready(p)
    /\ <<signature, message>> \in Presented
    /\ Found(a) => findOne(a).authAttempts < maxAttempts
    /\ LET outcome == VerifyOutcome(a, signature, message, now)
           call == [Call(p, "verifySignature", a) EXCEPT
                       !.signature = signature, !.message = message,
                       !.ipAddress = ipAddress, !.user = findOne(a),
                       !.found = Found(a), !.at = now, !.storeOps = 1]
       IN proc' = [proc EXCEPT ![p] =
              IF outcome = "ok" THEN [call EXCEPT !.pc = "vs_update"]
              ELSE IF outcome = SignatureMismatch THEN [call EXCEPT !.pc = "inc_find"]
              ELSE Return(call, Throw(outcome))]
    /\ UNCHANGED <<users, now, ticks, nonceCtr, issued, fails, accepted, consumed, outside>>

LockNeededLate(updatedAttempts) == updatedAttempts > MAX_ATTEMPTS

LockNeeded(updatedAttempts) == updatedAttempts >= MAX_ATTEMPTS

\* incrementAuthAttempts: findOne resolves, the update is computed.
IncrementFind(p) ==
    /\ proc[p].pc = "inc_find"
    /\ LET a == proc[p].walletAddress
           updatedAttempts == findOne(a).authAttempts + 1
       IN proc' = [proc EXCEPT ![p] =
              IF ~Found(a)
              THEN Return([@ EXCEPT !.storeOps = @ + 1], Throw(SignatureMismatch))
              ELSE [@ EXCEPT !.pc = "inc_update", !.storeOps = @ + 1,
                             !.incAt = now,
                             !.updatedAttempts = updatedAttempts,
                             !.lockUntil = IF LockNeeded(updatedAttempts)
                                           THEN now + LOCK_DURATION_MINUTES
                                           ELSE Null]]
    /\ UNCHANGED <<users, now, ticks, nonceCtr, issued, fails, accepted, consumed, outside>>

SetAttempts(u, updatedAttempts, lockUntil) ==
    [u EXCEPT !.authAttempts = updatedAttempts,
              !.lockedUntil = IF lockUntil # Null THEN lockUntil ELSE @]

\* incrementAuthAttempts: updateOne resolves; verifySignature throws.
IncrementUpdate(p) ==
    /\ proc[p].pc = "inc_update"
    /\ LET a == proc[p].walletAddress
       IN /\ users' = UpdateUser(a, SetAttempts(findOne(a), proc[p].updatedAttempts,
                                                  proc[p].lockUntil))
          /\ fails' = IF Found(a)
                      THEN [fails EXCEPT ![toLowerCase(a)] =
                               [n |-> @.n + 1, at |-> proc[p].incAt]]
                      ELSE fails
    /\ proc' = [proc EXCEPT ![p] =
           Return([@ EXCEPT !.storeOps = @ + 1], Throw(SignatureMismatch))]
    /\ UNCHANGED <<now, ticks, nonceCtr, issued, accepted, consumed, outside>>

RecordLogin(u, t, ipAddress) ==
    [u EXCEPT !.currentNonce = NoNonce,
              !.authAttempts = 0,
              !.lastLogin = t,
              !.loginHistory = PushSlice(@, [timestamp |-> t, ipAddress |-> ipAddress])]

\* updateOne resolves: nonce invalidated, login recorded; tokens returned.
VerifyUpdate(p) ==
    /\ proc[p].pc = "vs_update"
    /\ LET a == proc[p].walletAddress
       IN /\ users' = UpdateUser(a, RecordLogin(findOne(a), proc[p].at, proc[p].ipAddress))
          /\ fails' = IF Found(a) THEN [fails EXCEPT ![toLowerCase(a)] = NoFails] ELSE fails
          /\ proc' = [proc EXCEPT ![p] =
                 Return([@ EXCEPT !.storeOps = @ + 1],
                        ReturnTokens(generateTokens(a, now)))]
    /\ accepted' = accepted \cup {proc[p].signature}
    /\ consumed' = consumed \cup {proc[p].user.currentNonce}
    /\ UNCHANGED <<now, ticks, nonceCtr, issued, outside>>

---------------------------------------------------------------------------
(* AuthMiddleware.authenticateRequest *)

\* the response, or the hand-over to the downstream handler by next()
authenticateRequest(header, t) ==
    LET request == [NoRequest EXCEPT !.op = "authenticateRequest", !.header = header]
        decoded == header.token
        verdict == jwtVerify(decoded, "ACCESS_TOKEN_SECRET", t)
    IN IF ~header.present THEN Respond401(request, NoTokenProvided)
       ELSE IF verdict = "TokenExpiredError" THEN Respond401(request, TokenExpired)
       ELSE IF verdict # "ok" THEN Respond401(request, AuthenticationFailed)
       ELSE IF decoded.type # "access" THEN Respond401(request, InvalidTokenType)
       ELSE IF ~Found(decoded.walletAddress) THEN Respond401(request, UserNotFound)
       ELSE [request EXCEPT !.user = decoded.walletAddress, !.next = TRUE]

AuthenticateRequest(c, header) ==
    /\ header \in Headers
    /\ web' = [web EXCEPT ![c] = authenticateRequest(header, now)]
    /\ UNCHANGED <<now, ticks, core, otp, extra>>

---------------------------------------------------------------------------
(* AuthMiddleware.refreshAccessToken, called by authController.refreshToken *)

\* line 251 with the wrong member of the pair
MintedRefreshKind(decoded, t) == generateTokens(decoded.walletAddress, t).refreshToken

\* line 251 with an address other than the decoded one
MintedForOther(decoded, t) == generateTokens("0xbb", t).accessToken

Minted(decoded, t) == generateTokens(decoded.walletAddress, t).accessToken

refreshAccessToken(refreshToken, t) ==
    LET request == [NoRequest EXCEPT !.op = "refreshAccessToken",
                                     !.refreshToken = refreshToken]
        decoded == refreshToken
        verdict == jwtVerify(refreshToken, "REFRESH_TOKEN_SECRET", t)
    IN IF verdict = "TokenExpiredError" THEN Respond401(request, JwtExpired)
       ELSE IF verdict # "ok" THEN Respond401(request, JwtInvalid)
       ELSE IF decoded.type # "refresh" THEN Respond401(request, InvalidRefreshToken)
       ELSE [request EXCEPT !.status = 200, !.accessToken = Minted(decoded, t)]

RefreshAccessToken(c, refreshToken) ==
    /\ refreshToken \in PresentedTokens
    /\ web' = [web EXCEPT ![c] = refreshAccessToken(refreshToken, now)]
    /\ UNCHANGED <<now, ticks, core, otp, extra>>

---------------------------------------------------------------------------
(* NonceService.validateNonce, applied to a nonce string *)

\* the argument a caller holds
ReceiveNonce(nonce, maxAge) ==
    /\ nv = NoValidation
    /\ documents = [d \in {} |-> NoDocument]
    /\ emitted = NoEvent
    /\ docReq = [c \in Clients |-> NoDocRequest]
    /\ nv' = [NoValidation EXCEPT !.nonce = nonce, !.maxAge = maxAge, !.received = TRUE]
    /\ UNCHANGED <<now, ticks, core, web, otp, ledger, gated>>

ValidateNonce ==
    /\ nv.received
    /\ nv' = [nv EXCEPT !.result = validateNonceText(nv.nonce, nv.maxAge, now).result,
                        !.raised = validateNonceText(nv.nonce, nv.maxAge, now).raised,
                        !.at = now,
                        !.called = TRUE]
    /\ UNCHANGED <<now, ticks, core, web, otp, ledger, gated>>

---------------------------------------------------------------------------
(* DocumentManagement transactions *)

issueDocument(sender, recipient, ipfsHash, docCode) ==
    LET docId == keccak256(ipfsHash, docCode, now)
    IN /\ documents' =
              [d \in DOMAIN documents \cup {docId} |->
                  IF d = docId
                  THEN [issuer |-> sender, recipient |-> recipient, ipfsHash |-> ipfsHash,
                        docCode |-> docCode, timestamp |-> now, isVerified |-> TRUE]
                  ELSE documents[d]]
       /\ emitted' = [name |-> "DocumentIssued", docId |-> docId,
                      from |-> sender, to |-> recipient]
       /\ UNCHANGED <<now, ticks, core, web, otp, nv, docReq, gated>>

\* require(documents[_docId].recipient == msg.sender): otherwise the
\* transaction reverts and the ledger is as before
transferOwnership(sender, docId, newOwner) ==
    /\ documents' =
           IF Document(docId).recipient = sender
           THEN [documents EXCEPT ![docId] = [@ EXCEPT !.recipient = newOwner]]
           ELSE documents
    /\ emitted' =
           IF Document(docId).recipient = sender
           THEN [name |-> "OwnershipTransferred", docId |-> docId,
                 from |-> Document(docId).recipient, to |-> newOwner]
           ELSE emitted
    /\ UNCHANGED <<now, ticks, core, web, otp, nv, docReq, gated>>

---------------------------------------------------------------------------
(* AuthMiddleware.verifyDocumentAccess *)

LedgerAnswerIgnored(hasAccess) == TRUE

LedgerAnswer(hasAccess) == hasAccess

\* ledgerUp: whether the call to the ledger returns; when it does not,
\* blockchainService.canAccessDocument throws
verifyDocumentAccess(docId, user, ledgerUp) ==
    LET request == [NoDocRequest EXCEPT !.op = "verifyDocumentAccess", !.docId = docId,
                                        !.user = user, !.ledgerUp = ledgerUp]
    IN IF docId = NoDocId
       THEN [request EXCEPT !.status = 400, !.error = DocumentIdRequired]
       ELSE IF ~ledgerUp
       THEN [request EXCEPT !.status = 500, !.error = AccessVerificationFailed]
       ELSE IF ~LedgerAnswer(canAccessDocument(docId, user))
       THEN [request EXCEPT !.status = 403, !.error = AccessDenied]
       ELSE [request EXCEPT !.next = TRUE]

VerifyDocumentAccess(c, docId, user, ledgerUp) ==
    /\ docId \in DOMAIN documents \cup {NoDocId, UnknownDocId}
    /\ docReq' = [docReq EXCEPT ![c] = verifyDocumentAccess(docId, user, ledgerUp)]
    /\ UNCHANGED <<now, ticks, core, web, otp, nv, documents, emitted, gated>>

---------------------------------------------------------------------------
(* signup: the checks up to the first await; verifyOTP is synchronous *)
signup(c, walletAddress, email, candidate) ==
    LET isOTPValid == verifyOTP(otpStore, email, candidate, now)
        request == [NoFlow EXCEPT !.op = "signup", !.walletAddress = walletAddress,
                                  !.key = email, !.otp = candidate]
    IN IF ~isAddress(walletAddress)
       THEN /\ flow' = [flow EXCEPT ![c] =
                   [request EXCEPT !.pc = "done", !.status = 400,
                                   !.error = "Invalid wallet address"]]
            /\ UNCHANGED otp
       ELSE /\ otpStore' = verifyStore(otpStore, email, candidate, now)
            /\ otpLog' = [otpLog EXCEPT ![email] =
                   [@ EXCEPT !.wins = @ + (IF isOTPValid THEN 1 ELSE 0),
                             !.wrong = @ + (IF verifyPath(otpStore, email, candidate, now)
                                                 = "mismatch" THEN 1 ELSE 0)]]
            /\ UNCHANGED otpRes
            /\ flow' = [flow EXCEPT ![c] =
                   IF OtpGate(isOTPValid)
                   THEN [request EXCEPT !.pc = "upload", !.isOTPValid = isOTPValid]
                   ELSE [request EXCEPT !.pc = "done", !.status = 400,
                                        !.isOTPValid = isOTPValid,
                                        !.error = InvalidOrExpiredOTP]]

Signup(c, walletAddress, email, candidate) ==
    /\ flow[c].pc # "upload"
    /\ signup(c, walletAddress, email, candidate)
    /\ UNCHANGED <<now, ticks, core, web, nv, ledger, profiles>>

\* signup after the awaits: the uploads, then newUser.save() under the
\* unique indexes on walletAddress and profile.email
SignupSave(c, uploaded) ==
    LET walletAddress == toLowerCase(flow[c].walletAddress)
        email == flow[c].key
        duplicate == \/ walletAddress \in DOMAIN users
                     \/ \E a \in DOMAIN profiles : profiles[a] = email
    IN /\ flow[c].pc = "upload"
       /\ IF uploaded /\ ~duplicate
          THEN /\ users' = [a \in DOMAIN users \cup {walletAddress} |->
                               IF a = walletAddress THEN NewUser(walletAddress)
                               ELSE users[a]]
               /\ profiles' = [a \in DOMAIN profiles \cup {walletAddress} |->
                                  IF a = walletAddress THEN email ELSE profiles[a]]
               /\ flow' = [flow EXCEPT ![c] = [@ EXCEPT !.pc = "done", !.status = 201]]
          ELSE /\ flow' = [flow EXCEPT ![c] =
                      [@ EXCEPT !.pc = "done",
                                !.status = IF uploaded THEN 409 ELSE 500,
                                !.error =
                                    IF uploaded
                                    THEN "User already exists with this wallet address or email"
                                    ELSE "upload failed"]]
               /\ UNCHANGED <<users, profiles>>
       /\ UNCHANGED <<now, ticks, nonceCtr, issued, fails, accepted, consumed, proc,
                      web, otp, nv, ledger>>

\* verifyDocumentWithOTP: isVerified is the ledger's verifyDocument answer,
\* recipient the Document collection's record of the docId
verifyDocumentWithOTP(c, docId, candidate, isVerified, recipient) ==
    LET isOTPValid == verifyOTP(otpStore, docId, candidate, now)
        request == [NoFlow EXCEPT !.op = "verifyDocumentWithOTP", !.pc = "done",
                                  !.key = docId, !.otp = candidate,
                                  !.isOTPValid = isOTPValid]
    IN /\ otpStore' = verifyStore(otpStore, docId, candidate, now)
       /\ otpLog' = [otpLog EXCEPT ![docId] =
              [@ EXCEPT !.wins = @ + (IF isOTPValid THEN 1 ELSE 0),
                        !.wrong = @ + (IF verifyPath(otpStore, docId, candidate, now)
                                            = "mismatch" THEN 1 ELSE 0)]]
       /\ UNCHANGED otpRes
       /\ flow' = [flow EXCEPT ![c] =
              IF ~OtpGate(isOTPValid)
              THEN [request EXCEPT !.error = InvalidOrExpiredOTP]
              ELSE IF ~isVerified THEN request
              ELSE IF recipient = NoDbDocument
              THEN [request EXCEPT !.isVerified = TRUE, !.error = "Document not found"]
              ELSE IF ~Found(recipient)
              THEN [request EXCEPT !.isVerified = TRUE, !.error = "Document owner not found"]
              ELSE [request EXCEPT !.isVerified = TRUE,
                                   !.owner = findOne(recipient).walletAddress]]

VerifyDocumentWithOTP(c, docId, candidate, isVerified, recipient) ==
    /\ flow[c].pc # "upload"
    /\ verifyDocumentWithOTP(c, docId, candidate, isVerified, recipient)
    /\ UNCHANGED <<now, ticks, core, web, nv, ledger, profiles>>

(* OTP store operations; each runs to completion without an await *)

GenerateOTPForUser(c, userId, code) ==
    /\ otpStore' = MapSet(otpStore, userId, FreshEntry(otpStore, userId, code, now))
    /\ otpRes' = [otpRes EXCEPT ![c] =
           [NoOtpCall EXCEPT !.op = "generateOTPForUser", !.userId = userId, !.otp = code]]
    /\ otpLog' = [otpLog EXCEPT ![userId] = [NoLog EXCEPT !.code = code]]
    /\ UNCHANGED <<now, ticks, core, web, extra>>

VerifyOTP(c, userId, candidate) ==
    LET path == verifyPath(otpStore, userId, candidate, now)
        result == verifyOTP(otpStore, userId, candidate, now)
    IN /\ otpStore' = verifyStore(otpStore, userId, candidate, now)
       /\ otpRes' = [otpRes EXCEPT ![c] =
              [op |-> "verifyOTP", userId |-> userId, otp |-> candidate,
               result |-> result, path |-> path,
               storedData |-> IF userId \in DOMAIN otpStore
                              THEN otpStore[userId] ELSE NoEntry]]
       /\ otpLog' = [otpLog EXCEPT ![userId] =
              [@ EXCEPT !.wins = @ + (IF result THEN 1 ELSE 0),
                        !.wrong = @ + (IF path = "mismatch" THEN 1 ELSE 0)]]
       /\ UNCHANGED <<now, ticks, core, web, extra>>

\* the setInterval callback
CleanupExpiredOTPs ==
    /\ otpStore' = cleanupExpiredOTPs(otpStore, now)
    /\ UNCHANGED <<now, ticks, core, web, otpRes, otpLog, extra>>

---------------------------------------------------------------------------
Step(P, maxTicks, maxNonces, maxAttempts) ==
    \/ Tick(maxTicks)
    \/ \E p \in P, a \in Addresses : GenerateNonceCall(p, a, maxNonces)
    \/ \E p \in P : GenerateNonceUpdate(p)
    \/ \E p \in P, a \in VerifyAddresses, signature \in Signatures, message \in Messages,
          ipAddress \in IpAddresses :
            VerifySignatureCall(p, a, signature, message, ipAddress, maxAttempts)
    \/ \E p \in P : IncrementFind(p)
    \/ \E p \in P : IncrementUpdate(p)
    \/ \E p \in P : VerifyUpdate(p)

Next == Step(Procs, MaxTicks, MaxNonces, MaxAttempts)

Spec == Init /\ [][Next]_vars

\* One request at a time: no two calls overlap.
NextSeq == Step(SeqProcs, SeqTicks, SeqNonces, SeqAttempts)

SpecSeq == Init /\ [][NextSeq]_vars

\* One request at a time, the challenge issued more than once.
NextCycle == Step(SeqProcs, SeqTicks, CycleNonces, SeqAttempts)

SpecCycle == Init /\ [][NextCycle]_vars

\* The challenge answered by the wallet's owner, the session tokens it
\* returns, and the requests that present tokens; one request at a time.
NextSession ==
    \/ TickBy(SessionTicks, SessionSteps)
    \/ \E p \in SeqProcs, a \in Registered : GenerateNonceCall(p, a, SessionNonces)
    \/ \E p \in SeqProcs : GenerateNonceUpdate(p)
    \/ \E p \in SeqProcs, a \in Registered, message \in issued, ipAddress \in IpAddresses :
            VerifySignatureCall(p, a, Signature(a, message), message, ipAddress, SeqAttempts)
    \/ \E p \in SeqProcs : VerifyUpdate(p)
    \/ \E c \in Clients, header \in Headers : AuthenticateRequest(c, header)
    \/ \E c \in Clients, refreshToken \in PresentedTokens :
            RefreshAccessToken(c, refreshToken)

SpecSession == Init /\ [][NextSession]_vars

OtpStep(callers, userIds, maxTicks) ==
    \/ TickBy(maxTicks, OtpSteps)
    \/ \E c \in callers, userId \in userIds, code \in Otps :
            GenerateOTPForUser(c, userId, code)
    \/ \E c \in callers, userId \in userIds, candidate \in Otps :
            VerifyOTP(c, userId, candidate)
    \/ CleanupExpiredOTPs

\* Two callers working on one userId
NextOtp == OtpStep(OtpCallers, OneUserId, OtpTicks)

SpecOtp == Init /\ [][NextOtp]_vars

\* The OTP store left to the periodic cleanup: the clock advances by the
\* cleanup interval, and a code is generated only while the clock can still
\* pass its validity period.
SweepTick == TickBy(SweepTicks, {CleanupInterval})

NextSweep ==
    \/ SweepTick
    \/ \E c \in OneCaller, userId \in UserIds, code \in Otps :
            /\ now + validityPeriod < SweepTicks * CleanupInterval
            /\ GenerateOTPForUser(c, userId, code)
    \/ \E c \in OneCaller, userId \in UserIds, candidate \in Otps :
            VerifyOTP(c, userId, candidate)
    \/ CleanupExpiredOTPs

\* time passes, and setInterval keeps calling cleanupExpiredOTPs
SpecSweep ==
    Init /\ [][NextSweep]_vars /\ WF_vars(SweepTick) /\ WF_vars(CleanupExpiredOTPs)

\* validateNonce applied to every short string, at several times
NextNonce ==
    \/ TickBy(NonceTicks, NonceSteps)
    \/ \E nonce \in Texts \cup {NotAString}, maxAge \in MaxAges :
            ReceiveNonce(nonce, maxAge)
    \/ ValidateNonce

SpecNonce == Init /\ [][NextNonce]_vars

\* Every operation that could hand out a token, next to those that must not:
\* challenges, right and wrong signatures, refreshes, and the OTP store
NextProvenance ==
    \/ TickBy(ProvenanceTicks, {AccessTtl})
    \/ \E p \in SeqProcs, a \in Registered : GenerateNonceCall(p, a, ProvenanceNonces)
    \/ \E p \in SeqProcs : GenerateNonceUpdate(p)
    \/ \E p \in SeqProcs, a \in Registered, signer \in Wallets, message \in issued,
          ipAddress \in IpAddresses :
            VerifySignatureCall(p, a, Signature(signer, message), message, ipAddress,
                                ProvenanceAttempts)
    \/ \E p \in SeqProcs : IncrementFind(p)
    \/ \E p \in SeqProcs : IncrementUpdate(p)
    \/ \E p \in SeqProcs : VerifyUpdate(p)
    \/ \E c \in Clients, refreshToken \in PresentedTokens :
            RefreshAccessToken(c, refreshToken)
    \/ \E c \in OneCaller, userId \in OneUserId :
            GenerateOTPForUser(c, userId, "111111")
    \/ \E c \in OneCaller, userId \in OneUserId, candidate \in Otps :
            VerifyOTP(c, userId, candidate)

SpecProvenance == Init /\ [][NextProvenance]_vars

\* One request at a time, failed attempts continuing past the schema's maximum
NextLockout == Step(SeqProcs, SeqTicks, SeqNonces, LockoutAttempts)

SpecLockout == Init /\ [][NextLockout]_vars

\* One honest login after another (the client asks for a challenge when none
\* is stored and signs the stored one), past the length loginHistory is cut to
NextHistory ==
    \/ TickBy(HistoryTicks, {1})
    \/ \E p \in SeqProcs, a \in Registered :
            /\ findOne(a).currentNonce = NoNonce
            /\ GenerateNonceCall(p, a, HistoryNonces)
    \/ \E p \in SeqProcs : GenerateNonceUpdate(p)
    \/ \E p \in SeqProcs, a \in Registered, ipAddress \in IpAddresses :
            /\ findOne(a).currentNonce # NoNonce
            /\ VerifySignatureCall(p, a, Signature(a, findOne(a).currentNonce),
                                   findOne(a).currentNonce, ipAddress, SeqAttempts)
    \/ \E p \in SeqProcs : VerifyUpdate(p)

SpecHistory == Init /\ [][NextHistory]_vars

\* The two OTP-gated flows over one OTP store
NextGate ==
    \/ TickBy(GateTicks, GateSteps)
    \/ \E c \in OneCaller, userId \in Emails \cup DocKeys, code \in Otps :
            GenerateOTPForUser(c, userId, code)
    \/ \E c \in Clients, walletAddress \in SignupAddresses, email \in Emails,
          candidate \in Otps :
            Signup(c, walletAddress, email, candidate)
    \/ \E c \in Clients, uploaded \in BOOLEAN : SignupSave(c, uploaded)
    \/ \E c \in Clients, docId \in DocKeys, candidate \in Otps, isVerified \in BOOLEAN,
          recipient \in Wallets \cup {NoDbDocument} :
            VerifyDocumentWithOTP(c, docId, candidate, isVerified, recipient)
    \/ CleanupExpiredOTPs

SpecGate == Init /\ [][NextGate]_vars

\* The ledger, its transactions, and document reads by authenticated callers
NextLedger ==
    \/ TickBy(LedgerTicks, {1})
    \/ \E sender \in Accounts, recipient \in Accounts, ipfsHash \in IpfsHashes,
          docCode \in DocCodes :
            issueDocument(sender, recipient, ipfsHash, docCode)
    \/ \E sender \in Accounts, docId \in DOMAIN documents \cup {UnknownDocId},
          newOwner \in Accounts :
            transferOwnership(sender, docId, newOwner)
    \/ \E c \in Clients, docId \in DOMAIN documents \cup {NoDocId, UnknownDocId},
          user \in Accounts, ledgerUp \in BOOLEAN :
            VerifyDocumentAccess(c, docId, user, ledgerUp)

SpecLedger == Init /\ [][NextLedger]_vars

---------------------------------------------------------------------------
(* Steps of a request, as seen from outside *)

\* p starts a call of op in this step
Calls(p, op) == Ready(p) /\ proc'[p] # proc[p] /\ proc'[p].op = op

\* p's verifySignature returns a token pair in this step
ReturnsTokens(p) ==
    proc[p].pc = "vs_update" /\ proc'[p].pc = "done" /\ proc'[p].result.kind = "tokens"

\* p's verifySignature returns its recorded signature mismatch in this step
ReturnsMismatch(p) == proc[p].pc = "inc_update" /\ proc'[p].pc = "done"

\* p's generateNonce writes the nonce and returns it in this step
ReturnsNonce(p) == proc[p].pc = "gn_update" /\ proc'[p].pc = "done"

Failed(r, msg) == r.kind = "error" /\ r.error = msg

---------------------------------------------------------------------------
(* C1: replay protection.  A verifySignature call that presents a          *)
(* signature an earlier successful verifySignature has already accepted    *)
(* returns no token pair.  (Requests one at a time: every acceptance       *)
(* recorded in `accepted` is that of an earlier, completed call.)          *)
C1_ReplayRejected ==
    [][\A p \in Procs : ReturnsTokens(p) => proc[p].signature \notin accepted]_vars

(* C2: of the verifySignature calls that validated the same stored nonce,  *)
(* at most one returns a token pair: a call never returns tokens for a     *)
(* stored nonce that another successful call has already validated.        *)
C2_NonceConsumedOnce ==
    [][\A p \in Procs :
          ReturnsTokens(p) => proc[p].user.currentNonce \notin consumed]_vars

(* C3: while the identity's lockedUntil is in the future, no               *)
(* verifySignature call for it returns a token pair.                       *)
C3_NoTokensWhileLocked ==
    [][\A p \in Procs :
          ReturnsTokens(p) => ~isLocked(findOne(proc[p].walletAddress), now)]_vars

(* C4: starting from authAttempts = 0, with requests one at a time, the    *)
(* fifth consecutive signature mismatch sets lockedUntil to the time of    *)
(* that failure plus 15 minutes, and the first four leave lockedUntil as   *)
(* it was.                                                                 *)
C4_LockAtFifthFailure ==
    [][\A p \in Procs :
          ReturnsMismatch(p) =>
              LET k == toLowerCase(proc[p].walletAddress)
              IN k \in DOMAIN users =>
                   /\ fails'[k].n < MAX_ATTEMPTS =>
                          users'[k].lockedUntil = users[k].lockedUntil
                   /\ fails'[k].n = MAX_ATTEMPTS =>
                          users'[k].lockedUntil = fails'[k].at + LOCK_DURATION_MINUTES]_vars

C4_Witness ==
    /\ fails["0xaa"].n = MAX_ATTEMPTS
    /\ users["0xaa"].authAttempts = MAX_ATTEMPTS
    /\ users["0xaa"].lockedUntil = fails["0xaa"].at + LOCK_DURATION_MINUTES
    /\ fails["0xaa"].at > 0

(* C5: a verifySignature attempt made while the identity's lockedUntil is  *)
(* in the future (the sixth attempt after five failures) fails with an     *)
(* outcome distinct from the plain signature mismatch: no call that found  *)
(* the identity locked returns SignatureMismatch.                          *)
C5_LockedAttemptDistinct ==
    [][\A p \in Procs :
          (ReturnsMismatch(p) /\ proc[p].found)
          => ~isLocked(proc[p].user, proc[p].at)]_vars

(* C6: no recorded failed attempt is lost: authAttempts equals the number  *)
(* of signature mismatches returned since the counter was last reset.      *)
C6_NoLostIncrement ==
    \A k \in DOMAIN users : users[k].authAttempts = fails[k].n

(* C7: once issueNonce has been called again, a verifySignature call that  *)
(* presents a signature over the earlier, unconsumed nonce returns no      *)
(* token pair.                                                             *)
C7_SupersededNonceRejected ==
    [][\A p \in Procs :
          ReturnsTokens(p) =>
              LET signed == proc[p].signature.msg
                  stored == proc[p].user.currentNonce
              IN ~(/\ signed \in issued
                   /\ signed \notin consumed
                   /\ signed[3] < stored[3])]_vars

(* C8: generateNonce for a malformed address fails with InvalidAddress     *)
(* without an identity-store operation; for a well-formed address without  *)
(* a record it fails with UnknownIdentity; in both cases the store is      *)
(* left as it was and no nonce is generated or returned.                   *)
C8_NonceOnlyForRegistered ==
    [][\A p \in Procs :
          Calls(p, "generateNonce") =>
              LET a == proc'[p].walletAddress
              IN /\ ~isAddress(a) =>
                       /\ proc'[p].pc = "done"
                       /\ Failed(proc'[p].result, InvalidAddress)
                       /\ proc'[p].storeOps = 0
                 /\ (isAddress(a) /\ ~Found(a)) =>
                       /\ proc'[p].pc = "done"
                       /\ Failed(proc'[p].result, NoAccount)
                 /\ (~isAddress(a) \/ ~Found(a)) =>
                       /\ users' = users
                       /\ issued' = issued
                       /\ nonceCtr' = nonceCtr]_vars

C8_Witness ==
    \E p \in Procs :
        /\ proc[p].pc = "done"
        /\ proc[p].op = "generateNonce"
        /\ proc[p].walletAddress = "0xbb"
        /\ Failed(proc[p].result, NoAccount)
        /\ "0xbb" \notin DOMAIN users

(* C9: a verifySignature call that finds a stored nonce older than the     *)
(* maximum age fails with NonceExpired whatever signature it presents,     *)
(* returns no tokens and leaves the identity record unchanged.             *)
C9_ExpiredNonceRejected ==
    [][\A p \in Procs :
          Calls(p, "verifySignature") =>
              LET a == proc'[p].walletAddress
                  nonce == findOne(a).currentNonce
              IN (Found(a) /\ nonce # NoNonce /\ now - nonce[2] > maxAgeMinutes)
                 => /\ proc'[p].pc = "done"
                    /\ Failed(proc'[p].result, NonceExpired)
                    /\ users' = users]_vars

C9_Witness ==
    \E p \in Procs :
        /\ proc[p].pc = "done"
        /\ proc[p].op = "verifySignature"
        /\ Failed(proc[p].result, NonceExpired)
        /\ users["0xaa"].currentNonce # NoNonce
        /\ now - users["0xaa"].currentNonce[2] > maxAgeMinutes

(* C10: authAttempts is 0 right after every successful verifySignature,    *)
(* and right after every generateNonce that writes a new nonce once        *)
(* lockedUntil has passed.                                                 *)
C10_AttemptsReset ==
    [][\A p \in Procs :
          LET k == toLowerCase(proc[p].walletAddress)
          IN /\ (ReturnsTokens(p) /\ k \in DOMAIN users)
                   => users'[k].authAttempts = 0
             /\ (ReturnsNonce(p) /\ k \in DOMAIN users
                    /\ users[k].lockedUntil # Null /\ users[k].lockedUntil < now)
                   => users'[k].authAttempts = 0]_vars

(* C11: lazy lock expiry.  Whenever a write path of the authentication     *)
(* core (generateNonce writing a nonce, a recorded failed attempt, a       *)
(* successful verifySignature) updates a record whose lockedUntil is in    *)
(* the past, the record it leaves has lockedUntil cleared and              *)
(* authAttempts 0.                                                         *)
C11_LazyLockExpiry ==
    [][\A p \in Procs :
          LET k == toLowerCase(proc[p].walletAddress)
          IN (/\ ReturnsNonce(p) \/ ReturnsMismatch(p) \/ ReturnsTokens(p)
              /\ k \in DOMAIN users
              /\ users[k].lockedUntil # Null
              /\ users[k].lockedUntil < now)
             => /\ users'[k].lockedUntil = Null
                /\ users'[k].authAttempts = 0]_vars

\* c's request is answered, or handed on, in this step
Requests(c, op) == web'[c] # web[c] /\ web'[c].op = op

(* C12: the request authenticator hands a request to the downstream        *)
(* handler exactly when the bearer token is present, signed with the       *)
(* access secret, unexpired, of kind access, and its address resolves to   *)
(* a stored record; in every other case it answers 401 and does not call   *)
(* the handler; it never does both.                                        *)
C12_AuthenticatorGate ==
    [][\A c \in Clients :
          Requests(c, "authenticateRequest") =>
              LET r == web'[c]
                  token == r.header.token
                  good == /\ r.header.present
                          /\ token # NoToken
                          /\ token.secret = "ACCESS_TOKEN_SECRET"
                          /\ now < token.exp
                          /\ token.type = "access"
                          /\ toLowerCase(token.walletAddress) \in DOMAIN users
              IN /\ r.next <=> good
                 /\ r.status = 401 <=> ~good
                 /\ r.next => (r.status = 0 /\ r.user = token.walletAddress)
                 /\ ~r.next => r.user = "none"]_vars

C12_Witness ==
    \E c \in Clients :
        /\ web[c].op = "authenticateRequest"
        /\ web[c].next
        /\ web[c].header.token \in Held
        /\ now > 0

(* C13: end to end.  After generateNonce and a successful verifySignature, *)
(* the returned access token presented to an authenticated endpoint (while *)
(* unexpired) is passed to the handler, and the returned refresh token     *)
(* presented to the same endpoint is rejected as a token of the wrong kind *)
(* ('Invalid token type'), not as an invalid token.                        *)
C13_RefreshTokenWrongKind ==
    [][\A c \in Clients, p \in Procs :
          (Requests(c, "authenticateRequest") /\ proc[p].result.kind = "tokens") =>
              LET r == web'[c]
                  pair == proc[p].result
              IN /\ (r.header = Bearer(pair.accessToken) /\ now < pair.accessToken.exp)
                       => r.next
                 /\ (r.header = Bearer(pair.refreshToken) /\ now < pair.refreshToken.exp)
                       => (~r.next /\ r.status = 401 /\ r.error = InvalidTokenType)]_vars

(* C14: refreshAccessToken returns a token only for a token signed with    *)
(* the refresh secret, unexpired and of kind refresh; the token returned   *)
(* is of kind access and carries the address of the refresh token; given   *)
(* an access token it fails and mints nothing.                             *)
C14_RefreshMintsAccess ==
    [][\A c \in Clients :
          Requests(c, "refreshAccessToken") =>
              LET r == web'[c]
                  token == r.refreshToken
              IN /\ r.accessToken # NoToken =>
                       /\ token # NoToken
                       /\ token.secret = "REFRESH_TOKEN_SECRET"
                       /\ now < token.exp
                       /\ token.type = "refresh"
                       /\ r.accessToken.type = "access"
                       /\ r.accessToken.walletAddress = token.walletAddress
                 /\ (token # NoToken /\ token.type = "access") =>
                       (r.accessToken = NoToken /\ r.status = 401)]_vars

C14_Witness ==
    \E c \in Clients :
        /\ web[c].op = "refreshAccessToken"
        /\ web[c].status = 200
        /\ web[c].refreshToken \in Held
        /\ web[c].accessToken.type = "access"
        /\ web[c].accessToken.walletAddress = "0xaa"

(* C15: an OTP is accepted exactly once.  A verifyOTP with the stored   *)
(* code, within the validity window and the attempt limit, returns true    *)
(* and deletes the entry; no verifyOTP returns true for a userId for which *)
(* one has already returned true since the last generateOTPForUser.        *)
C15_AcceptedOnce ==
    [][\A c \in OtpCallers, k \in UserIds, candidate \in Otps :
          VerifyOTP(c, k, candidate) =>
              /\ (/\ k \in DOMAIN otpStore
                  /\ otpStore[k].otp = candidate
                  /\ now - otpStore[k].timestamp <= validityPeriod
                  /\ otpStore[k].attempts < OtpMaxAttempts)
                 => (otpRes'[c].result /\ k \notin DOMAIN otpStore')
              /\ otpRes'[c].result => otpLog[k].wins = 0]_vars

C15_Witness ==
    \E c \in OtpCallers :
        /\ otpRes[c].op = "verifyOTP"
        /\ otpRes[c].path = "absent"
        /\ otpRes[c].otp = otpLog[otpRes[c].userId].code
        /\ otpLog[otpRes[c].userId].wins = 1

(* C16: three wrong attempts exhaust the entry.  Once three verifyOTP      *)
(* calls have compared and returned false since generateOTPForUser, a      *)
(* further verifyOTP returns false, and the entry is no longer in the      *)
(* store when that call is made.                                           *)
C16_ExhaustedEntryPurged ==
    [][\A c \in OtpCallers, k \in UserIds, candidate \in Otps :
          (VerifyOTP(c, k, candidate) /\ otpLog[k].wrong >= OtpMaxAttempts) =>
              /\ ~otpRes'[c].result
              /\ k \notin DOMAIN otpStore]_vars

(* C17: verifyOTP never returns true for an entry older than 5 minutes,    *)
(* even for the stored code, and it deletes such an entry; the stored code *)
(* presented at exactly 5 minutes of age is accepted.                      *)
C17_Expiry ==
    [][\A c \in OtpCallers, k \in UserIds, candidate \in Otps :
          (VerifyOTP(c, k, candidate) /\ k \in DOMAIN otpStore) =>
              LET age == now - otpStore[k].timestamp
              IN /\ age > validityPeriod =>
                       (~otpRes'[c].result /\ k \notin DOMAIN otpStore')
                 /\ (/\ age = validityPeriod
                     /\ otpStore[k].otp = candidate
                     /\ otpStore[k].attempts < OtpMaxAttempts)
                    => otpRes'[c].result]_vars

C17_Witness ==
    \E c \in OtpCallers :
        /\ otpRes[c].op = "verifyOTP"
        /\ otpRes[c].path = "expired"
        /\ otpRes[c].storedData.otp = otpRes[c].otp
        /\ ~otpRes[c].result
        /\ otpRes[c].userId \notin DOMAIN otpStore

(* C18: generateOTPForUser overwrites the entry of the userId with the new *)
(* code, timestamp = now and attempts = 0; verifyOTP returns true only for *)
(* the code of the latest generateOTPForUser, and attempts counted against *)
(* the earlier code are not carried over.                                  *)
C18_IssueOverwrites ==
    [][\A c \in OtpCallers, k \in UserIds, code \in Otps :
          /\ GenerateOTPForUser(c, k, code) =>
                /\ k \in DOMAIN otpStore'
                /\ otpStore'[k] = [otp |-> code, timestamp |-> now, attempts |-> 0]
          /\ (VerifyOTP(c, k, code) /\ otpRes'[c].result) => code = otpLog[k].code]_vars

C18_Witness ==
    \E c, d \in OtpCallers :
        /\ otpRes[c].op = "verifyOTP"
        /\ otpRes[c].path = "mismatch"
        /\ otpRes[d].op = "generateOTPForUser"
        /\ otpRes[d].userId = otpRes[c].userId
        /\ otpRes[d].otp # otpRes[c].storedData.otp
        /\ otpRes[d].userId \in DOMAIN otpStore
        /\ otpStore[otpRes[d].userId].attempts = 0
        /\ otpLog[otpRes[d].userId].wrong = 0

(* C19: verifyOTP calls of several callers on one userId take effect one   *)
(* whole call at a time: since the last generateOTPForUser at most one     *)
(* call has returned true, and every call that reached the comparison and  *)
(* failed is counted in the stored attempts.                               *)
C19_VerifyAtomic ==
    \A k \in UserIds :
        /\ otpLog[k].wins <= 1
        /\ k \in DOMAIN otpStore => otpStore[k].attempts = otpLog[k].wrong

C19_Witness ==
    \E c, d \in OtpCallers :
        /\ c # d
        /\ otpRes[c].op = "verifyOTP" /\ otpRes[d].op = "verifyOTP"
        /\ otpRes[c].userId = otpRes[d].userId
        /\ otpRes[c].otp = otpRes[d].otp
        /\ otpRes[c].result /\ ~otpRes[d].result
        /\ otpRes[d].storedData = NoEntry /\ otpRes[d].path = "absent"

(* C20: a run of cleanupExpiredOTPs removes exactly the entries older     *)
(* than the 5-minute validity period and leaves the others as they are;    *)
(* with the cleanup running every interval, every entry in the store is    *)
(* eventually deleted.                                                     *)
C20_Sweep ==
    /\ [][CleanupExpiredOTPs =>
             \A k \in DOMAIN otpStore :
                 IF now - otpStore[k].timestamp > validityPeriod
                 THEN k \notin DOMAIN otpStore'
                 ELSE k \in DOMAIN otpStore' /\ otpStore'[k] = otpStore[k]]_vars
    /\ \A k \in UserIds : (k \in DOMAIN otpStore) ~> (k \notin DOMAIN otpStore)

C20_Witness ==
    \E c \in OneCaller :
        /\ otpRes[c].op = "generateOTPForUser"
        /\ otpRes[c].userId \notin DOMAIN otpStore
        /\ now > validityPeriod

(* C21: validateNonce returns true exactly when the nonce has three       *)
(* colon-delimited fields, its timestamp field is numeric, and             *)
(* now - timestamp <= maxAgeMinutes; for a wrong field count or a          *)
(* non-numeric timestamp it returns false; it never raises.                *)
C21_ValidateNonceExact ==
    nv.called =>
        /\ ~nv.raised
        /\ nv.result <=>
              /\ nv.nonce # NotAString
              /\ Len(split(nv.nonce)) = 3
              /\ split(nv.nonce)[2] # <<>>
              /\ \A i \in 1..Len(split(nv.nonce)[2]) : split(nv.nonce)[2][i] \in Digits
              /\ nv.at - DigitsValue(split(nv.nonce)[2]) <= nv.maxAge

(* C22: after every issueDocument and transferOwnership, canAccessDocument *)
(* is true for a document exactly for its issuer and its current           *)
(* recipient: issueDocument gives access to the sender and the recipient   *)
(* named, a transferOwnership by the current recipient gives it to the     *)
(* issuer and the new owner only (the former recipient, unless the issuer  *)
(* or the new owner, has lost it), and a transferOwnership by anyone else  *)
(* changes nothing.                                                        *)
C22_LedgerAccess ==
    [][/\ \A sender, recipient \in Accounts, ipfsHash \in IpfsHashes, docCode \in DocCodes :
             issueDocument(sender, recipient, ipfsHash, docCode) =>
                 \A user \in Accounts :
                     canAccessDocument(keccak256(ipfsHash, docCode, now), user)'
                         <=> user \in {sender, recipient}
       /\ \A sender, newOwner \in Accounts, docId \in DOMAIN documents :
             transferOwnership(sender, docId, newOwner) =>
                 IF documents[docId].recipient = sender
                 THEN \A user \in Accounts :
                          canAccessDocument(docId, user)'
                              <=> user \in {documents[docId].issuer, newOwner}
                 ELSE documents' = documents]_vars

C22_Witness ==
    /\ emitted.name = "OwnershipTransferred"
    /\ emitted.docId \in DOMAIN documents
    /\ emitted.from # documents[emitted.docId].issuer
    /\ emitted.from # emitted.to
    /\ documents[emitted.docId].recipient = emitted.to
    /\ ~canAccessDocument(emitted.docId, emitted.from)
    /\ canAccessDocument(emitted.docId, emitted.to)
    /\ canAccessDocument(emitted.docId, documents[emitted.docId].issuer)

(* C23: verifyDocumentAccess calls the document handler exactly when the  *)
(* docId is present, the ledger answered, and its answer for the caller    *)
(* was true; a missing docId gives 400, a ledger answer of false 403, a    *)
(* ledger failure 500 'Access verification failed', and in none of the     *)
(* three is the handler called.                                            *)
C23_DocumentAccessOutcomes ==
    [][\A c \in Clients, docId \in DOMAIN documents \cup {NoDocId, UnknownDocId},
          user \in Accounts, ledgerUp \in BOOLEAN :
          VerifyDocumentAccess(c, docId, user, ledgerUp) =>
              LET r == docReq'[c]
                  allowed == Document(docId).issuer = user \/ Document(docId).recipient = user
              IN /\ r.next <=> (docId # NoDocId /\ ledgerUp /\ allowed)
                 /\ r.next => r.status = 0
                 /\ docId = NoDocId => (r.status = 400 /\ r.error = DocumentIdRequired)
                 /\ (docId # NoDocId /\ ~ledgerUp)
                       => (r.status = 500 /\ r.error = AccessVerificationFailed)
                 /\ (docId # NoDocId /\ ledgerUp /\ ~allowed)
                       => (r.status = 403 /\ r.error = AccessDenied)]_vars

C23_Witness ==
    \E c \in Clients :
        /\ docReq[c].op = "verifyDocumentAccess"
        /\ docReq[c].status = 403
        /\ ~docReq[c].next
        /\ docReq[c].docId \in DOMAIN documents
        /\ emitted.name = "OwnershipTransferred"
        /\ emitted.from = docReq[c].user

(* C24: signup saves an identity only in a request whose verifyOTP(email,  *)
(* otp) returned true, and verifyDocumentWithOTP returns owner details     *)
(* only in a request whose verifyOTP(docId, otp) returned true; when the   *)
(* verification fails, no record is created and no owner is returned.      *)
C24_OtpGates ==
    [][/\ \A c \in Clients, walletAddress \in SignupAddresses, email \in Emails,
             candidate \in Otps :
             Signup(c, walletAddress, email, candidate) =>
                 /\ users' = users
                 /\ flow'[c].pc = "upload" => verifyOTP(otpStore, email, candidate, now)
                 /\ ~verifyOTP(otpStore, email, candidate, now) => flow'[c].status = 400
       /\ \A c \in Clients, uploaded \in BOOLEAN :
             SignupSave(c, uploaded) =>
                 (users' # users => flow[c].isOTPValid /\ flow[c].op = "signup")
       /\ users' # users => \E c \in Clients, uploaded \in BOOLEAN : SignupSave(c, uploaded)
       /\ \A c \in Clients, docId \in DocKeys, candidate \in Otps, isVerified \in BOOLEAN,
             recipient \in Wallets \cup {NoDbDocument} :
             VerifyDocumentWithOTP(c, docId, candidate, isVerified, recipient) =>
                 /\ flow'[c].owner # NoOwner => verifyOTP(otpStore, docId, candidate, now)
                 /\ ~verifyOTP(otpStore, docId, candidate, now)
                       => (flow'[c].owner = NoOwner /\ flow'[c].error = InvalidOrExpiredOTP)
      ]_vars

C24_Witness ==
    \E c \in Clients :
        /\ flow[c].op = "verifyDocumentWithOTP"
        /\ flow[c].owner = "0xbb"
        /\ "0xbb" \in DOMAIN users
        /\ otpLog["a@b.com"].wins = 1
        /\ otpLog["a@b.com"].wrong > 0
        /\ otpLog["0xd1"].wrong > 0

(* C25: a verifySignature call that returns the signature mismatch has,  *)
(* by its return, raised the stored authAttempts by one and left          *)
(* currentNonce in place; a call that fails for a missing record or       *)
(* nonce, an expired nonce or an unrecoverable signature leaves           *)
(* authAttempts as it was.                                                 *)
C25_FailedAttemptRecorded ==
    [][\A p \in Procs :
          LET k == toLowerCase(proc[p].walletAddress)
          IN /\ (ReturnsMismatch(p) /\ k \in DOMAIN users) =>
                    /\ users'[k].authAttempts = users[k].authAttempts + 1
                    /\ users'[k].currentNonce = users[k].currentNonce
             /\ (/\ Calls(p, "verifySignature")
                 /\ \/ Failed(proc'[p].result, NoValidNonce)
                    \/ Failed(proc'[p].result, NonceExpired)
                    \/ Failed(proc'[p].result, SignatureRecoveryError))
                   => \A a \in DOMAIN users :
                          users'[a].authAttempts = users[a].authAttempts]_vars

(* C26: loginHistory is a bounded ordered sequence.  Each successful       *)
(* verifySignature appends its entry and keeps the last 15, evicting the   *)
(* oldest; the entries are in chronological order and the last entry's     *)
(* timestamp is lastLogin.                                                 *)
C26_LoginHistory ==
    [][\A p \in Procs :
          LET k == toLowerCase(proc[p].walletAddress)
          IN (ReturnsTokens(p) /\ k \in DOMAIN users) =>
                LET h == users[k].loginHistory
                    h2 == users'[k].loginHistory
                    kept == IF Len(h) < 15 THEN Len(h) ELSE 14
                IN /\ Len(h2) = kept + 1
                   /\ \A i \in 1..kept : h2[i] = h[Len(h) - kept + i]
                   /\ h2[Len(h2)].timestamp = users'[k].lastLogin
                   /\ \A i \in 1..kept : h2[i].timestamp <= h2[i + 1].timestamp]_vars

(* C27: in every reachable state each identity's authAttempts is between  *)
(* 0 and 10, the maximum the schema declares, however many verifySignature *)
(* calls have failed.                                                      *)
C27_AttemptsWithinSchemaMax ==
    \A k \in DOMAIN users :
        users[k].authAttempts >= 0 /\ users[k].authAttempts <= AuthAttemptsMax

(* C28: challenge binding.  Whenever verifySignature returns a token pair, *)
(* the message whose signature it verified is the nonce that was stored    *)
(* in the identity's currentNonce.                                         *)
C28_MessageIsStoredNonce ==
    [][\A p \in Procs :
          ReturnsTokens(p) => proc[p].message = proc[p].user.currentNonce]_vars

(* C29: token provenance.  A token the server hands out in a step is      *)
(* either one of the pair returned by a successful verifySignature for    *)
(* its address, or an access token returned by refreshAccessToken on a     *)
(* valid refresh token for its address; generateNonce, a failed            *)
(* verifySignature and the OTP operations hand out no token.               *)
C29_TokenProvenance ==
    [][\A token \in Held' \ Held :
          \/ \E p \in Procs :
                /\ ReturnsTokens(p)
                /\ token \in {proc'[p].result.accessToken, proc'[p].result.refreshToken}
                /\ token.walletAddress = proc[p].walletAddress
                /\ SignerMatches(proc[p].walletAddress, proc[p].message, proc[p].signature)
          \/ \E c \in Clients :
                /\ Requests(c, "refreshAccessToken")
                /\ token = web'[c].accessToken
                /\ token.type = "access"
                /\ web'[c].refreshToken.type = "refresh"
                /\ web'[c].refreshToken.secret = "REFRESH_TOKEN_SECRET"
                /\ web'[c].refreshToken.walletAddress = token.walletAddress]_vars

C29_Witness ==
    /\ \E c \in Clients :
          /\ web[c].op = "refreshAccessToken"
          /\ web[c].accessToken \in Held
          /\ web[c].accessToken.walletAddress = "0xaa"
          /\ \A p \in SeqProcs : web[c].accessToken # proc[p].result.accessToken
    /\ \E p \in SeqProcs : Failed(proc[p].result, NoValidNonce)
    /\ \E c \in OneCaller : otpRes[c].op = "verifyOTP" /\ otpRes[c].result

(* C30: generateOTPForUser and verifyOTP on one userId, with the deletion *)
(* of its entry on a match, exhaustion or expiry, leave the entry stored   *)
(* under every other userId as it was: neither added, removed nor changed. *)
C30_KeyFrame ==
    [][\A c \in OneCaller, k \in UserIds :
          (\/ \E code \in Otps : GenerateOTPForUser(c, k, code)
           \/ \E candidate \in Otps : VerifyOTP(c, k, candidate))
          => \A j \in UserIds \ {k} :
                 /\ j \in DOMAIN otpStore' <=> j \in DOMAIN otpStore
                 /\ j \in DOMAIN otpStore => otpStore'[j] = otpStore[j]]_vars

C30_Witness ==
    \E c \in OneCaller, j \in UserIds :
        /\ otpRes[c].op = "verifyOTP"
        /\ otpRes[c].path \in {"match", "expired", "exhausted"}
        /\ otpRes[c].userId # j
        /\ otpRes[c].userId \notin DOMAIN otpStore
        /\ j \in DOMAIN otpStore
        /\ otpStore[j].attempts > 0

====
